---- MODULE Spec2Model ----
(***************************************************************************)
(* Model of cryptonote::checkpoints (src/src/checkpoints/checkpoints.cpp): *)
(* the height->hash and height->difficulty maps, the insertion primitive,  *)
(* the queries, the conflict check and the ingestion loaders.              *)
(*                                                                         *)
(* A std::map is a function whose DOMAIN is its key set; iterators are     *)
(* positions 1..size()+1 in the ascending key order (size()+1 is end()).   *)
(* Strings are sequences of one-character strings.  A crypto::hash is a    *)
(* sequence of HASH_SIZE bytes.                                            *)
(***************************************************************************)
EXTENDS Integers, Sequences, FiniteSets, TLC

\* Greatest block height the callers use (heights are 0..MaxHeight).
MaxHeight == 2

\* Most records of a checkpoint file or of a TXT answer.
MaxRecords == 2

\* sizeof(crypto::hash) in bytes, scaled down from 32.
HASH_SIZE == 1

VARIABLES
    m_points,             \* std::map<uint64_t, crypto::hash>
    m_difficulty_points,  \* std::map<uint64_t, difficulty_type>
    call                  \* the call in progress at the caller: its arguments and results

vars == <<m_points, m_difficulty_points, call>>

Heights == 0..MaxHeight

\* crypto::null_hash
null_hash == [i \in 1..HASH_SIZE |-> 0]

----------------------------------------------------------------------------
(* Strings and their conversions *)

LowerHex == <<"0","1","2","3","4","5","6","7","8","9","a","b","c","d","e","f">>
UpperHex == <<"0","1","2","3","4","5","6","7","8","9","A","B","C","D","E","F">>

IsHexChar(c) == \E i \in 1..16 : LowerHex[i] = c \/ UpperHex[i] = c

HexValue(c) == (CHOOSE i \in 1..16 : LowerHex[i] = c \/ UpperHex[i] = c) - 1

\* epee::string_tools::hex_to_pod: the string must hold exactly two hex
\* characters per byte; each pair becomes one byte, either letter case.
hex_to_pod(s) ==
    IF Len(s) = 2 * HASH_SIZE /\ \A i \in 1..Len(s) : IsHexChar(s[i])
    THEN [ok |-> TRUE,
          pod |-> [i \in 1..HASH_SIZE |->
                      16 * HexValue(s[2 * i - 1]) + HexValue(s[2 * i])]]
    ELSE [ok |-> FALSE, pod |-> null_hash]

IsDigit(c) == \E i \in 1..10 : LowerHex[i] = c

RECURSIVE DecimalValue(_)
DecimalValue(s) ==
    IF s = <<>> THEN 0
    ELSE 10 * DecimalValue(SubSeq(s, 1, Len(s) - 1)) + HexValue(s[Len(s)])

\* difficulty_type difficulty(difficulty_str): the constructor throws unless
\* the string is a number; leading zeros do not change the value.
parse_difficulty(s) ==
    IF s # <<>> /\ \A i \in 1..Len(s) : IsDigit(s[i])
    THEN [ok |-> TRUE, value |-> DecimalValue(s)]
    ELSE [ok |-> FALSE, value |-> 0]

----------------------------------------------------------------------------
(* Inputs *)

\* Hash strings the callers pass: two spellings of one hash, another hash,
\* a non-hex character, a string too short and a string too long.
HashStrs ==
    { <<"0","a">>, <<"0","A">>, <<"0","b">>, <<"0","g">>, <<"0">>,
      <<"0","a","0","b">> }

\* Difficulty strings: none, two spellings of 1, another value, not a number.
DiffStrs == { <<>>, <<"1">>, <<"0","1">>, <<"2">>, <<"x">> }

Hashes == { hex_to_pod(s).pod : s \in { t \in HashStrs : hex_to_pod(t).ok } }

Difficulties ==
    { parse_difficulty(s).value : s \in { t \in DiffStrs : parse_difficulty(t).ok } }

----------------------------------------------------------------------------
(* std::map *)

EmptyMap == <<>>

\* m[k] = v
MapPut(m, k, v) == [x \in DOMAIN m \cup {k} |-> IF x = k THEN v ELSE m[x]]

\* The keys in iteration order.
RECURSIVE KeysInOrder(_)
KeysInOrder(S) ==
    IF S = {} THEN <<>>
    ELSE LET least == CHOOSE x \in S : \A y \in S : x <= y
         IN  <<least>> \o KeysInOrder(S \ {least})

\* m.begin() and m.end() as positions
map_begin(m) == 1
map_end(m) == Cardinality(DOMAIN m) + 1

\* upper_bound taken for lower_bound: the first position whose key is not
\* less than k.
upper_bound_not_less(m, k) ==
    LET keys == KeysInOrder(DOMAIN m)
        after == { i \in 1..Len(keys) : keys[i] >= k }
    IN  IF after = {} THEN map_end(m)
        ELSE CHOOSE i \in after : \A j \in after : i <= j

\* m.upper_bound(k): the first position whose key is greater than k, else end()
upper_bound(m, k) ==
    LET keys == KeysInOrder(DOMAIN m)
        after == { i \in 1..Len(keys) : keys[i] > k }
    IN  IF after = {} THEN map_end(m)
        ELSE CHOOSE i \in after : \A j \in after : i <= j

\* it->first
key_at(m, it) == KeysInOrder(DOMAIN m)[it]

\* A checkpoints object
Registry(points, difficulty_points) ==
    [m_points |-> points, m_difficulty_points |-> difficulty_points]

Self == Registry(m_points, m_difficulty_points)

----------------------------------------------------------------------------
(* checkpoints: insertion *)

\* add_checkpoint without the check of the stored hash: the new hash
\* replaces it.
add_checkpoint_overwrite(reg, height, hash_str, difficulty_str) ==
    LET r == hex_to_pod(hash_str)
        stored == [reg EXCEPT !.m_points = MapPut(reg.m_points, height, r.pod)]
        d == parse_difficulty(difficulty_str)
    IN  IF ~r.ok THEN [ret |-> FALSE, reg |-> reg]
        ELSE IF difficulty_str = <<>> THEN [ret |-> TRUE, reg |-> stored]
        ELSE IF ~d.ok THEN [ret |-> FALSE, reg |-> stored]
        ELSE IF height \in DOMAIN reg.m_difficulty_points
                /\ d.value # reg.m_difficulty_points[height]
        THEN [ret |-> FALSE, reg |-> stored]
        ELSE [ret |-> TRUE,
              reg |-> [stored EXCEPT !.m_difficulty_points =
                         MapPut(reg.m_difficulty_points, height, d.value)]]

\* add_checkpoint storing the hash before it compares it with the stored one.
add_checkpoint_store_first(reg, height, hash_str, difficulty_str) ==
    LET r == hex_to_pod(hash_str)
        stored == [reg EXCEPT !.m_points = MapPut(reg.m_points, height, r.pod)]
        d == parse_difficulty(difficulty_str)
    IN  IF ~r.ok THEN [ret |-> FALSE, reg |-> reg]
        ELSE IF height \in DOMAIN reg.m_points /\ r.pod # reg.m_points[height]
        THEN [ret |-> FALSE, reg |-> stored]
        ELSE IF difficulty_str = <<>> THEN [ret |-> TRUE, reg |-> stored]
        ELSE IF ~d.ok THEN [ret |-> FALSE, reg |-> stored]
        ELSE IF height \in DOMAIN reg.m_difficulty_points
                /\ d.value # reg.m_difficulty_points[height]
        THEN [ret |-> FALSE, reg |-> stored]
        ELSE [ret |-> TRUE,
              reg |-> [stored EXCEPT !.m_difficulty_points =
                         MapPut(reg.m_difficulty_points, height, d.value)]]

\* add_checkpoint refusing every height that already holds a hash.
add_checkpoint_refuse_known(reg, height, hash_str, difficulty_str) ==
    LET r == hex_to_pod(hash_str)
        stored == [reg EXCEPT !.m_points = MapPut(reg.m_points, height, r.pod)]
        d == parse_difficulty(difficulty_str)
    IN  IF ~r.ok THEN [ret |-> FALSE, reg |-> reg]
        ELSE IF height \in DOMAIN reg.m_points
        THEN [ret |-> FALSE, reg |-> reg]
        ELSE IF difficulty_str = <<>> THEN [ret |-> TRUE, reg |-> stored]
        ELSE IF ~d.ok THEN [ret |-> FALSE, reg |-> stored]
        ELSE [ret |-> TRUE,
              reg |-> [stored EXCEPT !.m_difficulty_points =
                         MapPut(reg.m_difficulty_points, height, d.value)]]

\* add_checkpoint without the check of the stored difficulty: the new
\* difficulty replaces it.
add_checkpoint_difficulty_overwrite(reg, height, hash_str, difficulty_str) ==
    LET r == hex_to_pod(hash_str)
        stored == [reg EXCEPT !.m_points = MapPut(reg.m_points, height, r.pod)]
        d == parse_difficulty(difficulty_str)
    IN  IF ~r.ok THEN [ret |-> FALSE, reg |-> reg]
        ELSE IF height \in DOMAIN reg.m_points /\ r.pod # reg.m_points[height]
        THEN [ret |-> FALSE, reg |-> reg]
        ELSE IF difficulty_str = <<>> THEN [ret |-> TRUE, reg |-> stored]
        ELSE IF ~d.ok THEN [ret |-> FALSE, reg |-> stored]
        ELSE [ret |-> TRUE,
              reg |-> [stored EXCEPT !.m_difficulty_points =
                         MapPut(reg.m_difficulty_points, height, d.value)]]

\* add_checkpoint storing the difficulty before it looks at the hash.
add_checkpoint_difficulty_first(reg, height, hash_str, difficulty_str) ==
    LET d == parse_difficulty(difficulty_str)
        storable == /\ difficulty_str # <<>>
                    /\ d.ok
                    /\ height \in DOMAIN reg.m_difficulty_points
                         => d.value = reg.m_difficulty_points[height]
        first == IF storable
                 THEN [reg EXCEPT !.m_difficulty_points =
                          MapPut(reg.m_difficulty_points, height, d.value)]
                 ELSE reg
        r == hex_to_pod(hash_str)
        h == r.pod
    IN  IF ~r.ok THEN [ret |-> FALSE, reg |-> first]
        ELSE IF height \in DOMAIN reg.m_points /\ h # reg.m_points[height]
        THEN [ret |-> FALSE, reg |-> first]
        ELSE [ret |-> (difficulty_str = <<>> \/ storable),
              reg |-> [first EXCEPT !.m_points =
                          MapPut(reg.m_points, height, h)]]

\* bool checkpoints::add_checkpoint(height, hash_str, difficulty_str)
\* The result and the object's state when the call returns.
add_checkpoint(reg, height, hash_str, difficulty_str) ==
    LET r == hex_to_pod(hash_str)
        h == r.pod
    IN
    IF ~r.ok THEN [ret |-> FALSE, reg |-> reg]
    ELSE IF height \in DOMAIN reg.m_points /\ h # reg.m_points[height]
    THEN [ret |-> FALSE, reg |-> reg]
    ELSE
        LET stored == [reg EXCEPT !.m_points = MapPut(reg.m_points, height, h)]
        IN
        IF difficulty_str = <<>> THEN [ret |-> TRUE, reg |-> stored]
        ELSE
            LET d == parse_difficulty(difficulty_str)
                difficulty == d.value
            IN
            \* the constructor threw: catch (...) returns false
            IF ~d.ok THEN [ret |-> FALSE, reg |-> stored]
            ELSE IF height \in DOMAIN reg.m_difficulty_points
                    /\ difficulty # reg.m_difficulty_points[height]
            THEN [ret |-> FALSE, reg |-> stored]
            ELSE [ret |-> TRUE,
                  reg |-> [stored EXCEPT !.m_difficulty_points =
                             MapPut(reg.m_difficulty_points, height, difficulty)]]

----------------------------------------------------------------------------
(* checkpoints: queries *)

\* bool checkpoints::is_in_checkpoint_zone(height) const
is_in_checkpoint_zone(reg, height) ==
    DOMAIN reg.m_points # {}
    /\ height <= key_at(reg.m_points, map_end(reg.m_points) - 1)

\* check_block comparing nothing: every hash passes at a checkpoint.
check_block_any_hash(reg, height, h) ==
    [ret |-> TRUE, is_a_checkpoint |-> height \in DOMAIN reg.m_points]

\* bool checkpoints::check_block(height, h, is_a_checkpoint) const
check_block(reg, height, h) ==
    LET is_a_checkpoint == height \in DOMAIN reg.m_points
    IN  IF ~is_a_checkpoint
        THEN [ret |-> TRUE, is_a_checkpoint |-> FALSE]
        ELSE IF reg.m_points[height] = h
        THEN [ret |-> TRUE, is_a_checkpoint |-> TRUE]
        ELSE [ret |-> FALSE, is_a_checkpoint |-> TRUE]

\* is_alternative_block_allowed admitting a block at the checkpoint's height.
is_alternative_block_allowed_at(reg, blockchain_height, block_height) ==
    IF 0 = block_height THEN FALSE
    ELSE
        LET it == upper_bound(reg.m_points, blockchain_height)
        IN  IF it = map_begin(reg.m_points) THEN TRUE
            ELSE key_at(reg.m_points, it - 1) <= block_height

\* bool checkpoints::is_alternative_block_allowed(blockchain_height, block_height) const
is_alternative_block_allowed(reg, blockchain_height, block_height) ==
    IF 0 = block_height THEN FALSE
    ELSE
        LET it == upper_bound(reg.m_points, blockchain_height)
        IN  IF it = map_begin(reg.m_points) THEN TRUE
            ELSE LET checkpoint_height == key_at(reg.m_points, it - 1)
                 IN  checkpoint_height < block_height

\* get_max_height reading begin() instead of rbegin().
get_max_height_first(reg) ==
    IF DOMAIN reg.m_points = {} THEN 0
    ELSE key_at(reg.m_points, map_begin(reg.m_points))

\* uint64_t checkpoints::get_max_height() const
get_max_height(reg) ==
    IF DOMAIN reg.m_points = {} THEN 0
    ELSE key_at(reg.m_points, map_end(reg.m_points) - 1)

\* const std::map<uint64_t, crypto::hash> &checkpoints::get_points() const
get_points(reg) == reg.m_points

\* const std::map<uint64_t, difficulty_type> &checkpoints::get_difficulty_points() const
get_difficulty_points(reg) == reg.m_difficulty_points

\* The loop of check_for_conflicts from position it of other's points.
RECURSIVE conflicts_from(_, _, _)
conflicts_from(reg, pts, it) ==
    IF it = map_end(pts) THEN TRUE
    ELSE LET first == key_at(pts, it)
         IN  IF first \in DOMAIN reg.m_points /\ pts[first] # reg.m_points[first]
             THEN FALSE
             ELSE conflicts_from(reg, pts, it + 1)

\* check_for_conflicts failing on a height this object does not hold.
check_for_conflicts_strict(reg, other) ==
    \A k \in DOMAIN other.m_points :
        k \in DOMAIN reg.m_points /\ other.m_points[k] = reg.m_points[k]

\* check_for_conflicts comparing the difficulties at shared heights too.
check_for_conflicts_with_difficulty(reg, other) ==
    /\ conflicts_from(reg, get_points(other), map_begin(get_points(other)))
    /\ \A k \in DOMAIN reg.m_difficulty_points
                 \cap DOMAIN other.m_difficulty_points :
          reg.m_difficulty_points[k] = other.m_difficulty_points[k]

\* bool checkpoints::check_for_conflicts(const checkpoints &other) const
check_for_conflicts(reg, other) ==
    conflicts_from(reg, get_points(other), map_begin(get_points(other)))

----------------------------------------------------------------------------
(* checkpoints: ingestion *)

NetworkTypes == {"MAINNET", "TESTNET", "STAGENET"}

\* bool checkpoints::init_default_checkpoints(nettype): the compiled-in list
\* is commented out, so every network type adds nothing.
init_default_checkpoints(reg, nettype) ==
    IF nettype = "TESTNET" THEN [ret |-> TRUE, reg |-> reg]
    ELSE IF nettype = "STAGENET" THEN [ret |-> TRUE, reg |-> reg]
    ELSE [ret |-> TRUE, reg |-> reg]

\* The loop of load_checkpoints_from_json skipping only the records below
\* the prior maximum, not those at it.
RECURSIVE json_lines_from_below(_, _, _, _)
json_lines_from_below(reg, hashlines, it, prev_max_height) ==
    IF it > Len(hashlines) THEN [ret |-> TRUE, reg |-> reg]
    ELSE
        LET height == hashlines[it].height
            added == add_checkpoint(reg, height, hashlines[it].hash, <<>>)
        IN  IF height < prev_max_height
            THEN json_lines_from_below(reg, hashlines, it + 1, prev_max_height)
            ELSE IF ~added.ret THEN [ret |-> FALSE, reg |-> added.reg]
            ELSE json_lines_from_below(added.reg, hashlines, it + 1,
                                       prev_max_height)

\* The loop of load_checkpoints_from_json comparing each record with the
\* maximum height the registry has when the record is reached.
RECURSIVE json_lines_from_rising(_, _, _, _)
json_lines_from_rising(reg, hashlines, it, prev_max_height) ==
    IF it > Len(hashlines) THEN [ret |-> TRUE, reg |-> reg]
    ELSE
        LET height == hashlines[it].height
            added == add_checkpoint(reg, height, hashlines[it].hash, <<>>)
        IN  IF height <= get_max_height(reg)
            THEN json_lines_from_rising(reg, hashlines, it + 1, prev_max_height)
            ELSE IF ~added.ret THEN [ret |-> FALSE, reg |-> added.reg]
            ELSE json_lines_from_rising(added.reg, hashlines, it + 1,
                                        prev_max_height)

\* The loop of load_checkpoints_from_json going on to the next record when
\* an insertion fails.
RECURSIVE json_lines_from_skip_failed(_, _, _, _)
json_lines_from_skip_failed(reg, hashlines, it, prev_max_height) ==
    IF it > Len(hashlines) THEN [ret |-> TRUE, reg |-> reg]
    ELSE
        LET height == hashlines[it].height
            added == add_checkpoint(reg, height, hashlines[it].hash, <<>>)
        IN  IF height <= prev_max_height
            THEN json_lines_from_skip_failed(reg, hashlines, it + 1,
                                             prev_max_height)
            ELSE json_lines_from_skip_failed(added.reg, hashlines, it + 1,
                                             prev_max_height)

\* The for loop of load_checkpoints_from_json from record it.
\* ADD_CHECKPOINT(h, hash) returns false from the loader when
\* add_checkpoint(h, hash) fails.
RECURSIVE json_lines_from(_, _, _, _)
json_lines_from(reg, hashlines, it, prev_max_height) ==
    IF it > Len(hashlines) THEN [ret |-> TRUE, reg |-> reg]
    ELSE
        LET height == hashlines[it].height
        IN  IF height <= prev_max_height
            THEN json_lines_from(reg, hashlines, it + 1, prev_max_height)
            ELSE
                LET blockhash == hashlines[it].hash
                    added == add_checkpoint(reg, height, blockhash, <<>>)
                IN  IF ~added.ret THEN [ret |-> FALSE, reg |-> added.reg]
                    ELSE json_lines_from(added.reg, hashlines, it + 1,
                                         prev_max_height)

\* bool checkpoints::load_checkpoints_from_json(json_hashfile_fullpath)
\* file: whether the path exists, whether it deserializes, and its hashlines.
load_checkpoints_from_json(reg, file) ==
    IF ~file.exists THEN [ret |-> TRUE, reg |-> reg]
    ELSE
        LET prev_max_height == get_max_height(reg)
        IN  IF ~file.loads THEN [ret |-> FALSE, reg |-> reg]
            ELSE json_lines_from(reg, file.hashlines, 1, prev_max_height)

\* record.find(":"): the first position of the delimiter, 0 for npos
find_colon(record) ==
    LET at == { i \in 1..Len(record) : record[i] = ":" }
    IN  IF at = {} THEN 0 ELSE CHOOSE i \in at : \A j \in at : i <= j

\* std::stringstream ss(text); ss >> height: the digits the text starts with
\* are read, and the extraction fails when it starts with none.
read_uint64(text) ==
    LET stop == { i \in 1..Len(text) : ~IsDigit(text[i]) }
        n == IF stop = {} THEN Len(text)
             ELSE (CHOOSE i \in stop : \A j \in stop : i <= j) - 1
    IN  IF n = 0 THEN [ok |-> FALSE, value |-> 0]
        ELSE [ok |-> TRUE, value |-> DecimalValue(SubSeq(text, 1, n))]

\* The loop of load_checkpoints_from_dns skipping, as the file loader does,
\* the records at or below the maximum height of the registry.
RECURSIVE dns_records_from_above_max(_, _, _)
dns_records_from_above_max(reg, records, it) ==
    IF it > Len(records) THEN [ret |-> TRUE, reg |-> reg]
    ELSE
        LET record == records[it]
            pos == find_colon(record)
            ss == read_uint64(SubSeq(record, 1, pos - 1))
            height == ss.value
            hashStr == SubSeq(record, pos + 1, Len(record))
            added == add_checkpoint(reg, height, hashStr, <<>>)
        IN  IF \/ pos = 0
               \/ ~ss.ok
               \/ ~hex_to_pod(hashStr).ok
               \/ height <= get_max_height(reg)
            THEN dns_records_from_above_max(reg, records, it + 1)
            ELSE IF ~added.ret THEN [ret |-> FALSE, reg |-> added.reg]
            ELSE dns_records_from_above_max(added.reg, records, it + 1)

\* The for loop of load_checkpoints_from_dns from record it.
RECURSIVE dns_records_from(_, _, _)
dns_records_from(reg, records, it) ==
    IF it > Len(records) THEN [ret |-> TRUE, reg |-> reg]
    ELSE
        LET record == records[it]
            pos == find_colon(record)
        IN
        IF pos = 0 THEN dns_records_from(reg, records, it + 1)
        ELSE
            LET ss == read_uint64(SubSeq(record, 1, pos - 1))
                height == ss.value
                hashStr == SubSeq(record, pos + 1, Len(record))
            IN
            IF ~ss.ok THEN dns_records_from(reg, records, it + 1)
            ELSE IF ~hex_to_pod(hashStr).ok
            THEN dns_records_from(reg, records, it + 1)
            ELSE
                LET added == add_checkpoint(reg, height, hashStr, <<>>)
                IN  IF ~added.ret THEN [ret |-> FALSE, reg |-> added.reg]
                    ELSE dns_records_from(added.reg, records, it + 1)

\* load_checkpoints_from_dns reporting a failed fetch as a failure.
load_checkpoints_from_dns_fetch_needed(reg, txt) ==
    IF ~txt.fetched THEN [ret |-> FALSE, reg |-> reg]
    ELSE dns_records_from(reg, txt.records, 1)

\* bool checkpoints::load_checkpoints_from_dns(nettype)
\* txt: whether load_txt_records_from_dns succeeded, and the records it gave.
load_checkpoints_from_dns(reg, txt) ==
    IF ~txt.fetched THEN [ret |-> TRUE, reg |-> reg]
    ELSE dns_records_from(reg, txt.records, 1)

\* load_new_checkpoints that leaves out the DNS loader once the file loader
\* has failed (&& in place of &=).
load_new_checkpoints_short_circuit(reg, file, txt, dns) ==
    LET json == load_checkpoints_from_json(reg, file)
    IN  IF dns /\ json.ret
        THEN LET fromdns == load_checkpoints_from_dns(json.reg, txt)
             IN  [ret |-> fromdns.ret, reg |-> fromdns.reg]
        ELSE json

\* bool checkpoints::load_new_checkpoints(json_hashfile_fullpath, nettype, dns)
load_new_checkpoints(reg, file, txt, dns) ==
    LET json == load_checkpoints_from_json(reg, file)
    IN  IF dns
        THEN LET fromdns == load_checkpoints_from_dns(json.reg, txt)
             IN  [ret |-> json.ret /\ fromdns.ret, reg |-> fromdns.reg]
        ELSE json

----------------------------------------------------------------------------
(* What the callers pass *)

SeqsUpTo(S, n) == UNION { [1..k -> S] : k \in 0..n }

\* Every std::map<uint64_t, crypto::hash> over the heights
PointMaps == UNION { [D -> Hashes] : D \in SUBSET Heights }

\* The difficulty maps given to another checkpoints object holding points p:
\* none, or one difficulty at each of its heights.
DifficultyMapsFor(p) ==
    {EmptyMap} \cup { [k \in DOMAIN p |-> d] : d \in Difficulties }

\* Every other checkpoints object considered: any points, with and without
\* difficulties.
OtherRegistries ==
    UNION { { Registry(p, d) : d \in DifficultyMapsFor(p) } : p \in PointMaps }

\* The other checkpoints objects handed to check_for_conflicts by the
\* caller: those filled by add_checkpoint(height, hash), which hold no
\* difficulty, and those holding one checkpoint, with or without difficulty.
OtherCheckpoints ==
    { Registry(p, EmptyMap) : p \in PointMaps }
    \cup UNION { { Registry(p, d) : d \in DifficultyMapsFor(p) } :
                   p \in { q \in PointMaps : Cardinality(DOMAIN q) = 1 } }

\* t_hashline: the hash strings a checkpoint file holds
JsonHashStrs == { <<"0","a">>, <<"0","b">>, <<"0","g">> }

Hashlines == [height : Heights, hash : JsonHashStrs]

\* A checkpoint file: absent, not deserializable, or up to n hashlines
JsonFiles(n) ==
    { [exists |-> FALSE, loads |-> FALSE, hashlines |-> <<>>],
      [exists |-> TRUE, loads |-> FALSE, hashlines |-> <<>>] }
    \cup { [exists |-> TRUE, loads |-> TRUE, hashlines |-> l] :
             l \in SeqsUpTo(Hashlines, n) }

DigitChar(n) == LowerHex[n + 1]

\* TXT records: "<height>:<hash>" for every height and two hashes, a record
\* whose height is no number, one without the delimiter, one whose hash is
\* not hex, and one whose height is a digit followed by a letter.
DnsRecords ==
    { <<DigitChar(h), ":">> \o s : h \in Heights,
                                  s \in { <<"0","a">>, <<"0","b">> } }
    \cup { <<"x",":","0","a">>, <<"1","0","a">>, <<"1",":","0","g">>,
           <<"1","x",":","0","a">> }

\* The answer of load_txt_records_from_dns: failure, or up to n records
DnsAnswers(n) ==
    { [fetched |-> FALSE, records |-> <<>>] }
    \cup { [fetched |-> TRUE, records |-> l] : l \in SeqsUpTo(DnsRecords, n) }

----------------------------------------------------------------------------
(* The state machine: a caller makes one call at a time on the object and  *)
(* takes its result before the next call.                                  *)

Idle == [op |-> "idle"]

\* checkpoints::checkpoints()
Init ==
    /\ m_points = EmptyMap
    /\ m_difficulty_points = EmptyMap
    /\ call = Idle

\* The object's maps become those of reg.
Becomes(reg) ==
    /\ m_points' = reg.m_points
    /\ m_difficulty_points' = reg.m_difficulty_points

AddCheckpoint(height, hash_str, difficulty_str) ==
    /\ call = Idle
    /\ LET r == add_checkpoint(Self, height, hash_str, difficulty_str)
       IN  /\ Becomes(r.reg)
           /\ call' = [op |-> "add_checkpoint", height |-> height,
                       hash_str |-> hash_str,
                       difficulty_str |-> difficulty_str, ret |-> r.ret]

IsInCheckpointZone(height) ==
    /\ call = Idle
    /\ call' = [op |-> "is_in_checkpoint_zone", height |-> height,
                ret |-> is_in_checkpoint_zone(Self, height)]
    /\ UNCHANGED <<m_points, m_difficulty_points>>

CheckBlock(height, h) ==
    /\ call = Idle
    /\ LET r == check_block(Self, height, h)
       IN  call' = [op |-> "check_block", height |-> height, h |-> h,
                    ret |-> r.ret, is_a_checkpoint |-> r.is_a_checkpoint]
    /\ UNCHANGED <<m_points, m_difficulty_points>>

IsAlternativeBlockAllowed(blockchain_height, block_height) ==
    /\ call = Idle
    /\ call' = [op |-> "is_alternative_block_allowed",
                blockchain_height |-> blockchain_height,
                block_height |-> block_height,
                ret |-> is_alternative_block_allowed(Self, blockchain_height,
                                                     block_height)]
    /\ UNCHANGED <<m_points, m_difficulty_points>>

GetMaxHeight ==
    /\ call = Idle
    /\ call' = [op |-> "get_max_height", ret |-> get_max_height(Self)]
    /\ UNCHANGED <<m_points, m_difficulty_points>>

GetPoints ==
    /\ call = Idle
    /\ call' = [op |-> "get_points", ret |-> get_points(Self)]
    /\ UNCHANGED <<m_points, m_difficulty_points>>

GetDifficultyPoints ==
    /\ call = Idle
    /\ call' = [op |-> "get_difficulty_points",
                ret |-> get_difficulty_points(Self)]
    /\ UNCHANGED <<m_points, m_difficulty_points>>

CheckForConflicts(other) ==
    /\ call = Idle
    /\ call' = [op |-> "check_for_conflicts", other |-> other,
                ret |-> check_for_conflicts(Self, other)]
    /\ UNCHANGED <<m_points, m_difficulty_points>>

InitDefaultCheckpoints(nettype) ==
    /\ call = Idle
    /\ LET r == init_default_checkpoints(Self, nettype)
       IN  /\ Becomes(r.reg)
           /\ call' = [op |-> "init_default_checkpoints",
                       nettype |-> nettype, ret |-> r.ret]

LoadCheckpointsFromJson(file) ==
    /\ call = Idle
    /\ LET r == load_checkpoints_from_json(Self, file)
       IN  /\ Becomes(r.reg)
           /\ call' = [op |-> "load_checkpoints_from_json", file |-> file,
                       ret |-> r.ret]

LoadCheckpointsFromDns(txt) ==
    /\ call = Idle
    /\ LET r == load_checkpoints_from_dns(Self, txt)
       IN  /\ Becomes(r.reg)
           /\ call' = [op |-> "load_checkpoints_from_dns", txt |-> txt,
                       ret |-> r.ret]

LoadNewCheckpoints(file, txt, dns) ==
    /\ call = Idle
    /\ LET r == load_new_checkpoints(Self, file, txt, dns)
       IN  /\ Becomes(r.reg)
           /\ call' = [op |-> "load_new_checkpoints", file |-> file,
                       txt |-> txt, dns |-> dns, ret |-> r.ret]

\* The caller has taken the result.
Return ==
    /\ call # Idle
    /\ call' = Idle
    /\ UNCHANGED <<m_points, m_difficulty_points>>

\* The file, the TXT answer and the dns flag given to load_new_checkpoints:
\* a file alone with dns off, or no file and a TXT answer with dns on.
NewCheckpointSources ==
    { <<f, [fetched |-> FALSE, records |-> <<>>], FALSE>> : f \in JsonFiles(1) }
    \cup { <<[exists |-> FALSE, loads |-> FALSE, hashlines |-> <<>>], t, TRUE>> :
             t \in DnsAnswers(1) }

Next ==
    \/ \E height \in Heights, hash_str \in HashStrs, difficulty_str \in DiffStrs :
          AddCheckpoint(height, hash_str, difficulty_str)
    \/ \E height \in Heights : IsInCheckpointZone(height)
    \/ \E height \in Heights, h \in Hashes \cup {null_hash} : CheckBlock(height, h)
    \/ \E blockchain_height \in Heights, block_height \in Heights :
          IsAlternativeBlockAllowed(blockchain_height, block_height)
    \/ GetMaxHeight
    \/ GetPoints
    \/ GetDifficultyPoints
    \/ \E other \in OtherCheckpoints : CheckForConflicts(other)
    \/ \E nettype \in NetworkTypes : InitDefaultCheckpoints(nettype)
    \/ \E file \in JsonFiles(1) : LoadCheckpointsFromJson(file)
    \/ \E txt \in DnsAnswers(1) : LoadCheckpointsFromDns(txt)
    \/ \E src \in NewCheckpointSources :
          LoadNewCheckpoints(src[1], src[2], src[3])
    \/ Return

Spec == Init /\ [][Next]_vars

----------------------------------------------------------------------------
(* The ingestion pipeline: the registry is filled through the loaders and   *)
(* through add_checkpoint(height, hash) without a difficulty; checkpoint    *)
(* files and TXT answers hold up to MaxRecords records.                     *)

NextLoad ==
    \/ /\ call = Idle
       /\ \E height \in Heights, hash_str \in JsonHashStrs :
             AddCheckpoint(height, hash_str, <<>>)
    \/ /\ call = Idle
       /\ \E nettype \in NetworkTypes : InitDefaultCheckpoints(nettype)
    \/ /\ call = Idle
       /\ \E file \in JsonFiles(MaxRecords) : LoadCheckpointsFromJson(file)
    \/ /\ call = Idle
       /\ \E txt \in DnsAnswers(MaxRecords) : LoadCheckpointsFromDns(txt)
    \/ /\ call = Idle
       /\ \E file \in JsonFiles(1), txt \in DnsAnswers(1), dns \in BOOLEAN :
             LoadNewCheckpoints(file, txt, dns)
    \/ Return

SpecLoad == Init /\ [][NextLoad]_vars

----------------------------------------------------------------------------
(* Two threads on one checkpoints object.  The class holds no lock, so a    *)
(* thread inside add_checkpoint and a thread reading the maps interleave at *)
(* the statements that access them: add_checkpoint writes m_points at line  *)
(* 90 and m_difficulty_points at line 100.  Here call holds the call in     *)
(* progress of each thread.                                                 *)

ThreadHashStrs == { <<"0","a">>, <<"0","g">> }
ThreadDiffStrs == { <<>>, <<"1">>, <<"x">> }

InitThreads ==
    /\ m_points = EmptyMap
    /\ m_difficulty_points = EmptyMap
    /\ call = [writer |-> Idle, reader |-> Idle]

\* add_checkpoint up to the assignment to m_points (lines 79-90)
AddCheckpointHash(height, hash_str, difficulty_str) ==
    LET r == hex_to_pod(hash_str)
        h == r.pod
        entered == [op |-> "add_checkpoint", height |-> height,
                    hash_str |-> hash_str, difficulty_str |-> difficulty_str]
    IN  /\ call.writer = Idle
        /\ UNCHANGED m_difficulty_points
        /\ IF \/ ~r.ok
              \/ height \in DOMAIN m_points /\ h # m_points[height]
           THEN /\ UNCHANGED m_points
                /\ call' = [call EXCEPT !.writer =
                               [at |-> "return", ret |-> FALSE] @@ entered]
           ELSE /\ m_points' = MapPut(m_points, height, h)
                /\ call' = [call EXCEPT !.writer =
                               [at |-> "difficulty"] @@ entered]

\* add_checkpoint from the test of difficulty_str to its end (lines 91-108)
AddCheckpointDifficulty ==
    /\ call.writer # Idle
    /\ call.writer.at = "difficulty"
    /\ UNCHANGED m_points
    /\ LET height == call.writer.height
           difficulty_str == call.writer.difficulty_str
           d == parse_difficulty(difficulty_str)
           difficulty == d.value
           stores == /\ difficulty_str # <<>>
                     /\ d.ok
                     /\ height \in DOMAIN m_difficulty_points
                          => difficulty = m_difficulty_points[height]
       IN  /\ m_difficulty_points' =
                 IF stores THEN MapPut(m_difficulty_points, height, difficulty)
                 ELSE m_difficulty_points
           /\ call' = [call EXCEPT !.writer =
                          [at |-> "return",
                           ret |-> (difficulty_str = <<>> \/ stores)]
                          @@ call.writer]

\* add_checkpoint returns to the writing thread.
WriterReturn ==
    /\ call.writer # Idle
    /\ call.writer.at = "return"
    /\ call' = [call EXCEPT !.writer = Idle]
    /\ UNCHANGED <<m_points, m_difficulty_points>>

\* The reading thread looks height up in get_points() and in
\* get_difficulty_points().
ReadHeight(height) ==
    /\ call.reader = Idle
    /\ call' = [call EXCEPT !.reader =
                   [op |-> "read", height |-> height,
                    hash_stored |-> height \in DOMAIN get_points(Self),
                    difficulty_stored |->
                        height \in DOMAIN get_difficulty_points(Self)]]
    /\ UNCHANGED <<m_points, m_difficulty_points>>

\* The reading thread has used what it read.
ReaderReturn ==
    /\ call.reader # Idle
    /\ call' = [call EXCEPT !.reader = Idle]
    /\ UNCHANGED <<m_points, m_difficulty_points>>

NextThreads ==
    \/ /\ call.writer = Idle
       /\ \E height \in Heights, hash_str \in ThreadHashStrs,
             difficulty_str \in ThreadDiffStrs :
             AddCheckpointHash(height, hash_str, difficulty_str)
    \/ AddCheckpointDifficulty
    \/ WriterReturn
    \/ \E height \in Heights : ReadHeight(height)
    \/ ReaderReturn

SpecThreads == InitThreads /\ [][NextThreads]_vars

----------------------------------------------------------------------------
(* Properties *)

Max(S) == CHOOSE x \in S : \A y \in S : y <= x

\* The object's state after the step
SelfAfter == Registry(m_points', m_difficulty_points')

\* The formulas on the registry alone are stated between calls (call = Idle):
\* a call's state holds the same maps as the state its Return leads to.

\* The step is a call of op.
Calls(op) == call = Idle /\ call'.op = op

\* add_checkpoint(height, hash_str, ...) on points stops at the hash: the
\* string is malformed or the height holds another hash.
HashStageFails(points, height, hash_str) ==
    \/ ~hex_to_pod(hash_str).ok
    \/ height \in DOMAIN points /\ points[height] # hex_to_pod(hash_str).pod

\* C1: over every step of every operation the height->hash map only grows:
\* each height stored before the step is stored after it, with the same hash.
C1_PointsOnlyGrow ==
    [][\A k \in DOMAIN m_points :
          k \in DOMAIN m_points' /\ m_points'[k] = m_points[k]]_vars

\* A DNS load that failed on a conflicting record, the registry holding
\* several checkpoints.
C1_Witness ==
    /\ call.op = "load_checkpoints_from_dns"
    /\ call.ret = FALSE
    /\ Cardinality(DOMAIN m_points) >= 2

\* C2: an add_checkpoint call that fails at the hash stage (malformed hash
\* string, or a different hash stored at the height) returns false and leaves
\* both maps as they were, whatever the difficulty string; check_block still
\* accepts the hash stored before the call.
C2_HashFailureChangesNothing ==
    [][(Calls("add_checkpoint")
          /\ HashStageFails(m_points, call'.height, call'.hash_str))
        => /\ call'.ret = FALSE
           /\ m_points' = m_points
           /\ m_difficulty_points' = m_difficulty_points
           /\ call'.height \in DOMAIN m_points
                => check_block(SelfAfter, call'.height,
                               m_points[call'.height]).ret]_vars

\* add_checkpoint was refused for a well-formed hash differing from the
\* stored one, with a well-formed difficulty string.
C2_Witness ==
    /\ call.op = "add_checkpoint"
    /\ call.ret = FALSE
    /\ hex_to_pod(call.hash_str).ok
    /\ call.height \in DOMAIN m_points
    /\ m_points[call.height] # hex_to_pod(call.hash_str).pod
    /\ parse_difficulty(call.difficulty_str).ok

\* C3: check_block(h, x) reports isCheckpointed exactly when h is a key of
\* the height->hash map and accepts exactly when h is no key or the stored
\* hash is x; right after a successful add_checkpoint(h, hash) the pair is
\* accepted and every other hash at h is rejected; a check_block call
\* returns what the operator gives and changes neither map.
C3_CheckBlock ==
    /\ [](call = Idle =>
            \A h \in Heights, x \in Hashes \cup {null_hash} :
                LET r == check_block(Self, h, x)
                IN  /\ r.is_a_checkpoint = (h \in DOMAIN m_points)
                    /\ r.ret = (h \notin DOMAIN m_points \/ m_points[h] = x))
    /\ [][Calls("add_checkpoint") /\ call'.ret
          => \A x \in Hashes \cup {null_hash} :
                check_block(SelfAfter, call'.height, x).ret
                    = (x = hex_to_pod(call'.hash_str).pod)]_vars
    /\ [][Calls("check_block")
          => /\ m_points' = m_points
             /\ m_difficulty_points' = m_difficulty_points
             /\ call'.is_a_checkpoint = (call'.height \in DOMAIN m_points)
             /\ call'.ret = (call'.height \notin DOMAIN m_points
                             \/ m_points[call'.height] = call'.h)]_vars

\* check_block rejected a hash at a checkpointed height.
C3_Witness ==
    /\ call.op = "check_block"
    /\ call.is_a_checkpoint
    /\ call.ret = FALSE
    /\ call.h \in Hashes

\* The checkpoint heights at or below chain height c
AtOrBelow(points, c) == { k \in DOMAIN points : k <= c }

\* points without its heights above c
UpTo(points, c) == [k \in AtOrBelow(points, c) |-> points[k]]

\* C4: is_alternative_block_allowed(c, b) is false for b = 0; otherwise true
\* when no checkpoint has height <= c; otherwise true exactly when b is
\* greater than the greatest checkpoint height <= c.  The answer is that of
\* the registry without its checkpoints above c.
C4_AlternativeBlockAllowed ==
    call = Idle => \A c \in Heights, b \in Heights :
        LET allowed == is_alternative_block_allowed(Self, c, b)
            below == AtOrBelow(m_points, c)
        IN  /\ b = 0 => ~allowed
            /\ b # 0 /\ below = {} => allowed
            /\ b # 0 /\ below # {} => (allowed = (b > Max(below)))
            /\ allowed = is_alternative_block_allowed(
                             Registry(UpTo(m_points, c), m_difficulty_points), c, b)

\* A block above the floor checkpoint was allowed although a checkpoint at
\* or above its height lies beyond the chain height.
C4_Witness ==
    /\ call.op = "is_alternative_block_allowed"
    /\ call.ret = TRUE
    /\ AtOrBelow(m_points, call.blockchain_height) # {}
    /\ \E k \in DOMAIN m_points :
          k > call.blockchain_height /\ k >= call.block_height

\* C5: in the state a successful add_checkpoint(h, hash, diff) leaves,
\* add_checkpoint with the same arguments succeeds and leaves both maps as
\* they are.
C5_AddCheckpointIdempotent ==
    (call.op = "add_checkpoint" /\ call.ret)
        => LET again == add_checkpoint(Self, call.height, call.hash_str,
                                       call.difficulty_str)
           IN  again.ret /\ again.reg = Self

\* A successful add_checkpoint with a difficulty string.
C5_Witness ==
    /\ call.op = "add_checkpoint"
    /\ call.ret = TRUE
    /\ call.difficulty_str # <<>>
    /\ call.height \in DOMAIN m_difficulty_points

\* C6: whenever add_checkpoint returns false, both maps are unchanged.
C6_AddCheckpointAtomic ==
    [][Calls("add_checkpoint") /\ call'.ret = FALSE
        => m_points' = m_points
           /\ m_difficulty_points' = m_difficulty_points]_vars

\* C7: over every step the height->difficulty map only grows and keeps its
\* values; add_checkpoint with a difficulty that parses returns false when
\* another difficulty is stored at the height, and when the same difficulty
\* is stored it succeeds unless the hash stage fails.
C7_DifficultyOnlyGrows ==
    [][/\ \A k \in DOMAIN m_difficulty_points :
             /\ k \in DOMAIN m_difficulty_points'
             /\ m_difficulty_points'[k] = m_difficulty_points[k]
       /\ (Calls("add_checkpoint")
             /\ parse_difficulty(call'.difficulty_str).ok
             /\ call'.height \in DOMAIN m_difficulty_points)
          => IF parse_difficulty(call'.difficulty_str).value
                    # m_difficulty_points[call'.height]
             THEN call'.ret = FALSE
             ELSE call'.ret = ~HashStageFails(m_points, call'.height,
                                              call'.hash_str)]_vars

\* add_checkpoint was refused for a difficulty differing from the stored
\* one, its hash being the stored hash.
C7_Witness ==
    /\ call.op = "add_checkpoint"
    /\ call.ret = FALSE
    /\ ~HashStageFails(m_points, call.height, call.hash_str)
    /\ parse_difficulty(call.difficulty_str).ok
    /\ call.height \in DOMAIN m_difficulty_points
    /\ m_difficulty_points[call.height]
          # parse_difficulty(call.difficulty_str).value

\* C8 as stated: for every checkpoint height k, every candidate b <= k and
\* every chain height c, is_alternative_block_allowed(c, b) is false.
C8_RejectsAtOrBelowAnyCheckpoint ==
    call = Idle => \A k \in DOMAIN m_points, c \in Heights, b \in Heights :
        b <= k => ~is_alternative_block_allowed(Self, c, b)

\* C8 amended: for every checkpoint height k at or below the chain height c
\* and every candidate b <= k, is_alternative_block_allowed(c, b) is false.
C8_RejectsAtOrBelowReachedCheckpoint ==
    call = Idle => \A c \in Heights, b \in Heights :
        \A k \in AtOrBelow(m_points, c) :
            b <= k => ~is_alternative_block_allowed(Self, c, b)

\* A nonzero candidate at or below a checkpoint the chain has reached was
\* refused.
C8_Witness ==
    /\ call.op = "is_alternative_block_allowed"
    /\ call.ret = FALSE
    /\ call.block_height # 0
    /\ \E k \in AtOrBelow(m_points, call.blockchain_height) :
          call.block_height <= k

\* C9: is_in_checkpoint_zone(h) is true exactly when the height->hash map is
\* non-empty and h <= its greatest key; get_max_height() is 0 for an empty
\* map and otherwise its greatest key; get_max_height() never decreases.
C9_ZoneAndMaxHeight ==
    /\ [](call = Idle =>
            /\ \A h \in Heights :
                  is_in_checkpoint_zone(Self, h)
                      = (DOMAIN m_points # {} /\ h <= Max(DOMAIN m_points))
            /\ get_max_height(Self)
                  = IF DOMAIN m_points = {} THEN 0 ELSE Max(DOMAIN m_points))
    /\ [][m_points' # m_points
          => get_max_height(SelfAfter) >= get_max_height(Self)]_vars

\* The empty registry answered that height 0 is in no checkpoint zone.
C9_Witness ==
    /\ call.op = "is_in_checkpoint_zone"
    /\ call.height = 0
    /\ call.ret = FALSE
    /\ get_max_height(Self) = 0

\* No height held by both maps carries two hashes.
NoSharedMismatch(points, otherpoints) ==
    \A k \in DOMAIN points \cap DOMAIN otherpoints : points[k] = otherpoints[k]

\* C10: check_for_conflicts(other) is true exactly when every height this
\* registry and other both hold carries the same hash in both; the call
\* leaves both maps of this registry unchanged.
C10_CheckForConflicts ==
    /\ [](call = Idle
            => \A other \in OtherRegistries :
                  check_for_conflicts(Self, other)
                      = NoSharedMismatch(m_points, other.m_points))
    /\ [][Calls("check_for_conflicts")
          => /\ m_points' = m_points
             /\ m_difficulty_points' = m_difficulty_points
             /\ call'.ret = NoSharedMismatch(m_points,
                                             call'.other.m_points)]_vars

\* No conflict was reported for two registries that share a height and each
\* hold a height the other lacks.
C10_Witness ==
    /\ call.op = "check_for_conflicts"
    /\ call.ret = TRUE
    /\ DOMAIN m_points \cap DOMAIN call.other.m_points # {}
    /\ DOMAIN m_points \ DOMAIN call.other.m_points # {}
    /\ DOMAIN call.other.m_points \ DOMAIN m_points # {}

\* C18: in every reachable state each height with a stored difficulty has a
\* stored hash, and an add_checkpoint step that fails on a difficulty
\* conflict (the hash is accepted, the difficulty string is a number, and
\* another difficulty is stored at the height) changes neither map.
C18_DifficultyKeysAreHashKeys ==
    /\ [](DOMAIN m_difficulty_points \subseteq DOMAIN m_points)
    /\ [][(/\ Calls("add_checkpoint")
           /\ ~HashStageFails(m_points, call'.height, call'.hash_str)
           /\ call'.difficulty_str # <<>>
           /\ parse_difficulty(call'.difficulty_str).ok
           /\ call'.height \in DOMAIN m_difficulty_points
           /\ m_difficulty_points[call'.height]
                # parse_difficulty(call'.difficulty_str).value)
           => /\ call'.ret = FALSE
              /\ m_points' = m_points
              /\ m_difficulty_points' = m_difficulty_points]_vars

\* add_checkpoint has returned false for a hash that is the stored one and a
\* difficulty that is a number other than the stored one.
C18_Witness ==
    /\ call.op = "add_checkpoint"
    /\ call.ret = FALSE
    /\ hex_to_pod(call.hash_str).ok
    /\ call.height \in DOMAIN m_points
    /\ m_points[call.height] = hex_to_pod(call.hash_str).pod
    /\ parse_difficulty(call.difficulty_str).ok
    /\ call.height \in DOMAIN m_difficulty_points
    /\ m_difficulty_points[call.height]
         # parse_difficulty(call.difficulty_str).value

\* The hex string of a hash: two lower-case hex digits for each byte
RECURSIVE pod_to_hex(_)
pod_to_hex(pod) ==
    IF pod = <<>> THEN <<>>
    ELSE <<LowerHex[(pod[1] \div 16) + 1], LowerHex[(pod[1] % 16) + 1]>>
           \o pod_to_hex(Tail(pod))

\* Whether add_checkpoint(height, hash) with an empty difficulty, called on
\* reg for the entries of pts from position it on, one after the other,
\* succeeds for all of them
RECURSIVE MergeSucceedsFrom(_, _, _)
MergeSucceedsFrom(reg, pts, it) ==
    IF it = map_end(pts) THEN TRUE
    ELSE LET height == key_at(pts, it)
             added == add_checkpoint(reg, height, pod_to_hex(pts[height]), <<>>)
         IN  added.ret /\ MergeSucceedsFrom(added.reg, pts, it + 1)

MergeSucceeds(reg, other) ==
    MergeSucceedsFrom(reg, other.m_points, map_begin(other.m_points))

\* C19: for this registry and any other one, check_for_conflicts(other) is
\* true exactly when add_checkpoint(height, hash) with an empty difficulty
\* would succeed on this registry for every entry of other; it gives the
\* same answer with the two registries exchanged; and it gives the same
\* answer when the difficulty maps of both are emptied.  The answer returned
\* by a check_for_conflicts step is that one.
C19_ConflictCheckIsDryRunOfMerge ==
    /\ [](call = Idle
            => \A other \in OtherRegistries :
                  /\ check_for_conflicts(Self, other)
                       = MergeSucceeds(Self, other)
                  /\ check_for_conflicts(Self, other)
                       = check_for_conflicts(other, Self)
                  /\ check_for_conflicts(Self, other)
                       = check_for_conflicts(Registry(m_points, EmptyMap),
                             Registry(other.m_points, EmptyMap)))
    /\ [][Calls("check_for_conflicts")
          => /\ call'.ret = MergeSucceeds(Self, call'.other)
             /\ call'.ret = check_for_conflicts(call'.other, Self)]_vars

\* No conflict was reported for two registries that hold the same hash and
\* different difficulties at a shared height.
C19_Witness ==
    /\ call.op = "check_for_conflicts"
    /\ call.ret = TRUE
    /\ \E k \in DOMAIN m_difficulty_points
                  \cap DOMAIN call.other.m_difficulty_points :
          /\ m_points[k] = call.other.m_points[k]
          /\ m_difficulty_points[k] # call.other.m_difficulty_points[k]

----------------------------------------------------------------------------
(* Properties of the ingestion pipeline *)

\* The result of the call made by the step, and the state it leaves
StepResult == [ret |-> call'.ret, reg |-> SelfAfter]

\* C11: a load_checkpoints_from_json step, with P = get_max_height() before
\* it, keeps every entry present before; inserts nothing at a height <= P;
\* gives the result it gives for the file without its records at heights
\* <= P, whatever their hashes; and when it returns true for a file that
\* loads, every record at a height > P is stored with its hash and accepted
\* by check_block.  The difficulty map is unchanged.
C11_JsonKeepsPriorTrust ==
    [][Calls("load_checkpoints_from_json")
        => LET P == get_max_height(Self)
               file == call'.file
               Above(line) == line.height > P
               above == [file EXCEPT !.hashlines = SelectSeq(file.hashlines, Above)]
           IN  /\ \A k \in DOMAIN m_points :
                     k \in DOMAIN m_points' /\ m_points'[k] = m_points[k]
               /\ \A k \in DOMAIN m_points' :
                     k <= P => k \in DOMAIN m_points
               /\ m_difficulty_points' = m_difficulty_points
               /\ load_checkpoints_from_json(Self, above) = StepResult
               /\ (file.exists /\ file.loads /\ call'.ret)
                    => \A i \in 1..Len(file.hashlines) :
                          LET line == file.hashlines[i]
                          IN  line.height > P
                                => /\ line.height \in DOMAIN m_points'
                                   /\ m_points'[line.height]
                                        = hex_to_pod(line.hash).pod
                                   /\ check_block(SelfAfter, line.height,
                                          hex_to_pod(line.hash).pod)
                                        = [ret |-> TRUE,
                                           is_a_checkpoint |-> TRUE]]_vars

\* A file was loaded with success although one of its records names a
\* stored height with another hash (it was skipped), and another of its
\* records, at a greater height, is stored.
C11_Witness ==
    /\ call.op = "load_checkpoints_from_json"
    /\ call.ret = TRUE
    /\ \E i, j \in 1..Len(call.file.hashlines) :
          LET skipped == call.file.hashlines[i]
              added == call.file.hashlines[j]
          IN  /\ skipped.height \in DOMAIN m_points
              /\ hex_to_pod(skipped.hash).ok
              /\ m_points[skipped.height] # hex_to_pod(skipped.hash).pod
              /\ added.height > skipped.height
              /\ added.height \in DOMAIN m_points
              /\ m_points[added.height] = hex_to_pod(added.hash).pod

\* A text that is an unsigned integer: decimal digits, at least one
IsUnsignedInteger(text) ==
    text # <<>> /\ \A i \in 1..Len(text) : IsDigit(text[i])

\* The two sides of a TXT record that holds the delimiter
LeftSide(record) == SubSeq(record, 1, find_colon(record) - 1)
RightSide(record) == SubSeq(record, find_colon(record) + 1, Len(record))

\* A malformed TXT record: no ':' delimiter, a left side that is not an
\* unsigned integer, or a right side that is not a valid hex hash
Malformed(record) ==
    \/ find_colon(record) = 0
    \/ ~IsUnsignedInteger(LeftSide(record))
    \/ ~hex_to_pod(RightSide(record)).ok

WellFormed(record) == ~Malformed(record)

\* C12: a load_checkpoints_from_dns step on a fetched batch gives the return
\* value and the registry that loading the batch without its malformed
\* records gives, and when the batch is loaded without conflict (the step
\* returns true) every well-formed record of it is stored with its hash.
C12_DnsSkipsMalformed ==
    [][(Calls("load_checkpoints_from_dns") /\ call'.txt.fetched)
        => LET txt == call'.txt
               valid == [txt EXCEPT !.records = SelectSeq(txt.records, WellFormed)]
           IN  /\ load_checkpoints_from_dns(Self, valid) = StepResult
               /\ call'.ret
                    => \A i \in 1..Len(txt.records) :
                          LET record == txt.records[i]
                              height == DecimalValue(LeftSide(record))
                          IN  WellFormed(record)
                                => /\ height \in DOMAIN m_points'
                                   /\ m_points'[height]
                                        = hex_to_pod(RightSide(record)).pod]_vars

\* C13: a load_checkpoints_from_dns step whose fetch of the TXT records
\* fails returns true and changes neither map, and a
\* load_checkpoints_from_json step whose file does not exist returns true
\* and changes neither map.
C13_AbsentSourceIsNoError ==
    [][/\ (Calls("load_checkpoints_from_dns") /\ ~call'.txt.fetched)
            => /\ call'.ret = TRUE
               /\ m_points' = m_points
               /\ m_difficulty_points' = m_difficulty_points
       /\ (Calls("load_checkpoints_from_json") /\ ~call'.file.exists)
            => /\ call'.ret = TRUE
               /\ m_points' = m_points
               /\ m_difficulty_points' = m_difficulty_points]_vars

\* load_checkpoints_from_dns has returned true on a registry that holds
\* checkpoints although the fetch failed.
C13_Witness ==
    /\ call.op = "load_checkpoints_from_dns"
    /\ ~call.txt.fetched
    /\ call.ret = TRUE
    /\ m_points # EmptyMap

\* C14: a load_new_checkpoints step leaves the registry as the file loader
\* followed, if and only if dns is true, by the DNS loader leaves it, the DNS
\* loader starting from what the file loader left whether or not the file
\* loader failed; it returns the conjunction of the results of the loaders
\* run.  So with dns true a well-formed first TXT record that does not
\* conflict with what the file loader left is stored even when the file
\* loader returned false, and with dns false the TXT records play no part.
C14_LoadNewRunsBothLoaders ==
    [][Calls("load_new_checkpoints")
        => LET file == call'.file
               txt == call'.txt
               json == load_checkpoints_from_json(Self, file)
               fromdns == load_checkpoints_from_dns(json.reg, txt)
           IN  /\ call'.dns
                    => /\ call'.ret = (json.ret /\ fromdns.ret)
                       /\ SelfAfter = fromdns.reg
               /\ ~call'.dns
                    => /\ call'.ret = json.ret
                       /\ SelfAfter = json.reg
               /\ (/\ call'.dns
                   /\ txt.fetched
                   /\ txt.records # <<>>
                   /\ WellFormed(txt.records[1]))
                    => LET height == DecimalValue(LeftSide(txt.records[1]))
                           h == hex_to_pod(RightSide(txt.records[1])).pod
                       IN  (height \in DOMAIN json.reg.m_points
                              => json.reg.m_points[height] = h)
                             => /\ height \in DOMAIN m_points'
                                /\ m_points'[height] = h]_vars

\* load_new_checkpoints has returned false for a file that exists and
\* cannot be loaded, with dns true, and the TXT record fetched is stored.
C14_Witness ==
    /\ call.op = "load_new_checkpoints"
    /\ call.dns
    /\ call.file.exists /\ ~call.file.loads
    /\ call.ret = FALSE
    /\ call.txt.fetched
    /\ call.txt.records # <<>>
    /\ WellFormed(call.txt.records[1])
    /\ LET height == DecimalValue(LeftSide(call.txt.records[1]))
       IN  /\ DOMAIN m_points = {height}
           /\ m_points[height] = hex_to_pod(RightSide(call.txt.records[1])).pod

\* The permutations of 1..n
Reorderings(n) ==
    { q \in [1..n -> 1..n] : \A i, j \in 1..n : q[i] = q[j] => i = j }

\* C16: when a load_checkpoints_from_json step returns true for a file that
\* is read, loading any permutation of the records of that file from the
\* same registry returns true as well and leaves the same registry.
C16_JsonOrderIrrelevant ==
    [][(/\ Calls("load_checkpoints_from_json")
        /\ call'.file.exists /\ call'.file.loads
        /\ call'.ret)
        => LET file == call'.file
               n == Len(file.hashlines)
           IN  \A q \in Reorderings(n) :
                  LET permuted ==
                          [file EXCEPT !.hashlines =
                              [i \in 1..n |-> file.hashlines[q[i]]]]
                  IN  load_checkpoints_from_json(Self, permuted)
                        = [ret |-> TRUE, reg |-> SelfAfter]]_vars

\* A file whose records come in falling height was loaded with success and
\* both its records are stored.
C16_Witness ==
    /\ call.op = "load_checkpoints_from_json"
    /\ call.ret = TRUE
    /\ Len(call.file.hashlines) >= 2
    /\ LET first == call.file.hashlines[1]
           second == call.file.hashlines[2]
       IN  /\ first.height > second.height
           /\ second.height > 0
           /\ DOMAIN m_points = {first.height, second.height}
           /\ m_points[first.height] = hex_to_pod(first.hash).pod
           /\ m_points[second.height] = hex_to_pod(second.hash).pod

\* Record i of hashlines cannot be inserted after the records before it:
\* its hash is malformed, or differs from the hash an earlier record gives
\* for the same height.
FailsInFile(hashlines, i) ==
    \/ ~hex_to_pod(hashlines[i].hash).ok
    \/ \E j \in 1..(i - 1) :
          /\ hashlines[j].height = hashlines[i].height
          /\ hex_to_pod(hashlines[j].hash).pod
               # hex_to_pod(hashlines[i].hash).pod

\* C17: in a load_checkpoints_from_json step on a file that is read, with
\* P the maximum height before it and the records above P taken in file
\* order: none of them names a height stored before; the step returns false
\* exactly when one of them has a malformed hash or a hash differing from
\* that of an earlier one at the same height; and then, k being the first
\* such record, the registry afterwards is the registry before together
\* with the records before k, and nothing else.
C17_JsonAbortsAtFirstFailure ==
    [][(/\ Calls("load_checkpoints_from_json")
        /\ call'.file.exists /\ call'.file.loads)
        => LET P == get_max_height(Self)
               Above(line) == line.height > P
               above == SelectSeq(call'.file.hashlines, Above)
               failing == { i \in 1..Len(above) : FailsInFile(above, i) }
               k == IF failing = {} THEN Len(above) + 1
                    ELSE CHOOSE i \in failing : \A j \in failing : i <= j
           IN  /\ \A i \in 1..Len(above) :
                     above[i].height \notin DOMAIN m_points
               /\ call'.ret = (failing = {})
               /\ DOMAIN m_points'
                    = DOMAIN m_points
                        \cup { above[i].height : i \in 1..(k - 1) }
               /\ \A h \in DOMAIN m_points : m_points'[h] = m_points[h]
               /\ \A i \in 1..(k - 1) :
                     m_points'[above[i].height]
                       = hex_to_pod(above[i].hash).pod
               /\ m_difficulty_points' = m_difficulty_points]_vars

\* A load has returned false on a file whose first record is stored and
\* whose second record gives another well-formed hash for the same height.
C17_Witness ==
    /\ call.op = "load_checkpoints_from_json"
    /\ call.ret = FALSE
    /\ Len(call.file.hashlines) >= 2
    /\ LET first == call.file.hashlines[1]
           second == call.file.hashlines[2]
       IN  /\ first.height = second.height
           /\ hex_to_pod(first.hash).ok /\ hex_to_pod(second.hash).ok
           /\ hex_to_pod(first.hash).pod # hex_to_pod(second.hash).pod
           /\ first.height \in DOMAIN m_points
           /\ m_points[first.height] = hex_to_pod(first.hash).pod

\* The TXT answer txt cut after its first n records
FirstRecords(txt, n) == [txt EXCEPT !.records = SubSeq(txt.records, 1, n)]

\* C20: in a load_checkpoints_from_dns step on a fetched batch, take any
\* well-formed record that the loader reaches (loading the records before
\* it returns true) and the registry those records leave.  If that registry
\* holds another hash at the record's height, the step returns false and
\* leaves exactly that registry: the stored hash stays, the earlier records
\* stay committed, no later record is inserted.  Otherwise the record is
\* inserted, whether its height is above or below the maximum height, and
\* is stored when the step ends.  No step changes or removes a stored hash.
C20_DnsHasNoThreshold ==
    [][(Calls("load_checkpoints_from_dns") /\ call'.txt.fetched)
        => LET txt == call'.txt
           IN  /\ \A k \in DOMAIN m_points :
                     k \in DOMAIN m_points' /\ m_points'[k] = m_points[k]
               /\ \A i \in 1..Len(txt.records) :
                     LET record == txt.records[i]
                         height == DecimalValue(LeftSide(record))
                         h == hex_to_pod(RightSide(record)).pod
                         before == load_checkpoints_from_dns(Self,
                                       FirstRecords(txt, i - 1))
                     IN  (WellFormed(record) /\ before.ret)
                           => IF /\ height \in DOMAIN before.reg.m_points
                                 /\ before.reg.m_points[height] # h
                              THEN /\ call'.ret = FALSE
                                   /\ SelfAfter = before.reg
                              ELSE /\ height \in DOMAIN m_points'
                                   /\ m_points'[height] = h]_vars

\* A load has returned false on a batch of two well-formed records: the
\* first is stored, at a height below that of the second, and the second
\* names a stored height with another hash than the stored one.
C20_Witness ==
    /\ call.op = "load_checkpoints_from_dns"
    /\ call.ret = FALSE
    /\ Len(call.txt.records) >= 2
    /\ LET first == call.txt.records[1]
           second == call.txt.records[2]
           low == DecimalValue(LeftSide(first))
           high == DecimalValue(LeftSide(second))
       IN  /\ WellFormed(first) /\ WellFormed(second)
           /\ low < high
           /\ DOMAIN m_points = {low, high}
           /\ m_points[low] = hex_to_pod(RightSide(first)).pod
           /\ m_points[high] # hex_to_pod(RightSide(second)).pod

----------------------------------------------------------------------------
(* Properties of two threads on one object *)

\* C15: a read of height h made while add_checkpoint(h, hash, diff) with a
\* non-empty diff is in progress (entered and not yet at its return) never
\* finds the hash of h stored without its difficulty, nor the difficulty
\* without the hash.
C15_ReaderSeesConsistentSnapshot ==
    [][(/\ call.reader = Idle
        /\ call'.reader # Idle
        /\ call.writer # Idle
        /\ call.writer.at # "return"
        /\ call.writer.difficulty_str # <<>>
        /\ call'.reader.height = call.writer.height)
        => call'.reader.hash_stored = call'.reader.difficulty_stored]_vars

====
